---------------------------- MODULE Spec2Model ----------------------------
(* A model of TrackTools/PyUpdateTrackTools.py: the name normalizer, the   *)
(* two-source function lookup, the Markdown table builder, the document    *)
(* updater and the driver.                                                 *)
(*                                                                         *)
(* Text is a sequence of characters, each character a one-character        *)
(* string, so that the regular expressions of the script are modelled by   *)
(* what they match.  Characters outside ASCII are written "U+XXXX".        *)
EXTENDS Integers, Sequences, FiniteSets, TLC

VARIABLES
    filename,          \* normalize_tool_name: its argument
    name,              \* normalize_tool_name: its return value
    npc,               \* normalize_tool_name: "call" | "done"
    tool_name,         \* query_tool_function: its argument
    wiki_resp,         \* what the Wikipedia endpoint answers when asked
    ddg_resp,          \* what the DuckDuckGo endpoint answers when asked
    requests,          \* the requests sent so far, in order
    qpc,               \* query_tool_function: "wiki" | "ddg" | "returned" | "raised"
    result,            \* query_tool_function: its return value
    md_file,           \* the target document: Absent or its text
    old_file,          \* the target document before the last update
    table_content,     \* update_markdown_file: its last argument
    old_table,         \* update_markdown_file: the argument before the last one
    first_file,        \* the target document before the first update
    ncalls,            \* number of update_markdown_file calls so far
    dir_entries,       \* main: the entries of tools_dir
    pending,           \* main: the entries iterdir() has not yielded yet
    collected_tools,   \* main: the list of (tool_name, function) pairs
    lookups,           \* main: the answers the endpoints gave, per tool
    markdown_table,    \* main: the rendered table
    mpc                \* main: "iter" | "sort" | "build" | "update" | "done"

vars == <<filename, name, npc, tool_name, wiki_resp, ddg_resp, requests, qpc,
          result, md_file, old_file, table_content, old_table, first_file,
          ncalls, dir_entries, pending, collected_tools, lookups,
          markdown_table, mpc>>

normVars   == <<filename, name, npc>>
queryVars  == <<tool_name, wiki_resp, ddg_resp, requests, qpc, result>>
updateVars == <<md_file, old_file, table_content, old_table, first_file, ncalls>>
mainVars   == <<dir_entries, pending, collected_tools, lookups, markdown_table, mpc>>

-----------------------------------------------------------------------------
(* Characters and strings                                                  *)

UpperCase == <<"A","B","C","D","E","F","G","H","I","J","K","L","M",
               "N","O","P","Q","R","S","T","U","V","W","X","Y","Z">>
LowerCase == <<"a","b","c","d","e","f","g","h","i","j","k","l","m",
               "n","o","p","q","r","s","t","u","v","w","x","y","z">>
DigitChars == <<"0","1","2","3","4","5","6","7","8","9">>

Range(s) == { s[i] : i \in 1..Len(s) }

UpperSet == Range(UpperCase)
LowerSet == Range(LowerCase)
DigitSet == Range(DigitChars)

IsUpper(c) == c \in UpperSet
IsLower(c) == c \in LowerSet
IsAlpha(c) == IsUpper(c) \/ IsLower(c)
IsDigit(c) == c \in DigitSet
IsSpace(c) == c \in {" ", "\n", "\t"}

IndexIn(s, c) == CHOOSE i \in 1..Len(s) : s[i] = c

ToLower == [c \in UpperSet |-> LowerCase[IndexIn(UpperCase, c)]]
ToUpper == [c \in LowerSet |-> UpperCase[IndexIn(LowerCase, c)]]

\* str.lower() and str.upper() on one character
LowerChar(c) == IF IsUpper(c) THEN ToLower[c] ELSE c
UpperChar(c) == IF IsLower(c) THEN ToUpper[c] ELSE c

\* str.lower()
Lower(s) == [i \in 1..Len(s) |-> LowerChar(s[i])]

\* The code point of a character, as Python orders strings by it.
Ord(c) ==
    CASE c = "\t" -> 9
      [] c = "\n" -> 10
      [] c = " " -> 32
      [] c = "(" -> 40
      [] c = "+" -> 43
      [] c = "-" -> 45
      [] c = "." -> 46
      [] IsDigit(c) -> 47 + IndexIn(DigitChars, c)
      [] IsUpper(c) -> 64 + IndexIn(UpperCase, c)
      [] c = "_" -> 95
      [] IsLower(c) -> 96 + IndexIn(LowerCase, c)
      [] c = "|" -> 124
      [] c = "U+00BC" -> 188
      [] c = "U+00EF" -> 239
      [] c = "U+02C6" -> 710
      [] c = "U+FF08" -> 65288

\* s < t for Python strings
RECURSIVE StrLess(_, _)
StrLess(s, t) ==
    IF t = <<>> THEN FALSE
    ELSE IF s = <<>> THEN TRUE
    ELSE IF s[1] = t[1] THEN StrLess(Tail(s), Tail(t))
    ELSE Ord(s[1]) < Ord(t[1])

\* s[i:] and s[:i] with 1-based positions: the text from i on, the text before i
From(s, i) == SubSeq(s, i, Len(s))
Before(s, i) == SubSeq(s, 1, i - 1)

\* whether pat stands in s at position i
MatchAt(s, i, pat) ==
    /\ i + Len(pat) - 1 <= Len(s)
    /\ \A k \in 1..Len(pat) : s[i + k - 1] = pat[k]

\* the same, ignoring letter case (re.I)
MatchAtI(s, i, pat) ==
    /\ i + Len(pat) - 1 <= Len(s)
    /\ \A k \in 1..Len(pat) : LowerChar(s[i + k - 1]) = LowerChar(pat[k])

\* "sep".join(parts)
RECURSIVE Join(_, _)
Join(parts, sep) ==
    IF parts = <<>> THEN <<>>
    ELSE IF Len(parts) = 1 THEN parts[1]
    ELSE parts[1] \o sep \o Join(Tail(parts), sep)

\* the concatenation of a sequence of strings
Concat(parts) == Join(parts, <<>>)

-----------------------------------------------------------------------------
(* normalize_tool_name                                                     *)

\* Path(filename).stem: the name without its last suffix; a leading dot and a
\* trailing dot start no suffix.
LastDot(s) ==
    IF \E i \in 1..Len(s) : s[i] = "."
    THEN CHOOSE i \in 1..Len(s) : s[i] = "." /\ \A j \in (i+1)..Len(s) : s[j] # "."
    ELSE 0

\* Path(filename).suffix
Suffix(s) == IF 1 < LastDot(s) /\ LastDot(s) < Len(s) THEN From(s, LastDot(s)) ELSE <<>>

PathStem(s) == IF 1 < LastDot(s) /\ LastDot(s) < Len(s) THEN Before(s, LastDot(s)) ELSE s

\* the alternatives of (x64|x86|win32|win64), in the order the pattern tries them
ArchTokens == << <<"x","6","4">>, <<"x","8","6">>,
                 <<"w","i","n","3","2">>, <<"w","i","n","6","4">> >>

\* the length of the architecture token matched at position i, 0 if none
ArchMatchLen(s, i) ==
    IF \E k \in 1..Len(ArchTokens) : MatchAtI(s, i, ArchTokens[k])
    THEN Len(ArchTokens[CHOOSE k \in 1..Len(ArchTokens) :
                 /\ MatchAtI(s, i, ArchTokens[k])
                 /\ \A j \in 1..(k-1) : ~MatchAtI(s, i, ArchTokens[j])])
    ELSE 0

\* re.sub(r"(x64|x86|win32|win64)", "", name, flags=re.I): one pass, left to
\* right, over non-overlapping matches
RECURSIVE StripArchFrom(_, _)
StripArchFrom(s, i) ==
    IF i > Len(s) THEN <<>>
    ELSE IF ArchMatchLen(s, i) > 0 THEN StripArchFrom(s, i + ArchMatchLen(s, i))
    ELSE <<s[i]>> \o StripArchFrom(s, i + 1)

StripArch(s) == StripArchFrom(s, 1)

\* \d+ from position i (a digit): the position after the run
RECURSIVE DigitsEnd(_, _)
DigitsEnd(s, i) ==
    IF i <= Len(s) /\ IsDigit(s[i]) THEN DigitsEnd(s, i + 1) ELSE i

\* (\.\d+)* from position i: the position after the last group
RECURSIVE GroupsEnd(_, _)
GroupsEnd(s, i) ==
    IF i + 1 <= Len(s) /\ s[i] = "." /\ IsDigit(s[i + 1])
    THEN GroupsEnd(s, DigitsEnd(s, i + 1))
    ELSE i

\* VersionMatchEnd with the v required, as the pattern v\d+(\.\d+)* would
\* match: a bare number is no version
VersionMatchEndNeedsV(s, i) ==
    IF LowerChar(s[i]) = "v" /\ i + 1 <= Len(s) /\ IsDigit(s[i + 1])
    THEN GroupsEnd(s, DigitsEnd(s, i + 1))
    ELSE 0

\* v?\d+(\.\d+)* at position i: the position after the match, 0 if none
VersionMatchEnd(s, i) ==
    LET d == IF LowerChar(s[i]) = "v" /\ i + 1 <= Len(s) /\ IsDigit(s[i + 1])
             THEN i + 1 ELSE i
    IN  IF IsDigit(s[d]) THEN GroupsEnd(s, DigitsEnd(s, d)) ELSE 0

\* re.sub(r"v?\d+(\.\d+)*", "", name, flags=re.I)
RECURSIVE StripVersionFrom(_, _)
StripVersionFrom(s, i) ==
    IF i > Len(s) THEN <<>>
    ELSE IF VersionMatchEnd(s, i) > 0 THEN StripVersionFrom(s, VersionMatchEnd(s, i))
    ELSE <<s[i]>> \o StripVersionFrom(s, i + 1)

StripVersion(s) == StripVersionFrom(s, 1)

\* the character class of the split pattern, as the bytes of the source file
\* spell it: _ - U+00EF U+00BC U+02C6 (
SplitChars == {"_", "-", "U+00EF", "U+00BC", "U+02C6", "("}

\* re.split(r"[_\-...(]", name)[0]: the text before the first such character
SplitFirst(s) ==
    IF \E i \in 1..Len(s) : s[i] \in SplitChars
    THEN Before(s, CHOOSE i \in 1..Len(s) :
                      s[i] \in SplitChars /\ \A j \in 1..(i-1) : s[j] \notin SplitChars)
    ELSE s

SeparatorChars == {".", "_", "-"}

\* re.sub(r"[._\-]+", " ", name): each run of separators becomes one space
RECURSIVE CollapseFrom(_, _)
CollapseFrom(s, i) ==
    IF i > Len(s) THEN <<>>
    ELSE IF s[i] \in SeparatorChars
         THEN IF i > 1 /\ s[i - 1] \in SeparatorChars
              THEN CollapseFrom(s, i + 1)
              ELSE <<" ">> \o CollapseFrom(s, i + 1)
    ELSE <<s[i]>> \o CollapseFrom(s, i + 1)

CollapseSeparators(s) == CollapseFrom(s, 1)

\* str.strip()
RECURSIVE LStrip(_)
LStrip(s) == IF s # <<>> /\ IsSpace(s[1]) THEN LStrip(Tail(s)) ELSE s

RECURSIVE RStrip(_)
RStrip(s) == IF s # <<>> /\ IsSpace(s[Len(s)]) THEN RStrip(Before(s, Len(s))) ELSE s

Strip(s) == RStrip(LStrip(s))

\* Title left out: the name keeps the letter case of the file name
TitleKeepsCase(s) == s

\* str.title(): a letter is upper-cased when the character before it is no
\* letter, lower-cased otherwise; other characters are kept
Title(s) ==
    [i \in 1..Len(s) |->
        IF IsAlpha(s[i])
        THEN IF i > 1 /\ IsAlpha(s[i - 1]) THEN LowerChar(s[i]) ELSE UpperChar(s[i])
        ELSE s[i]]

normalize_tool_name(fn) ==
    Title(Strip(CollapseSeparators(SplitFirst(StripVersion(StripArch(PathStem(fn)))))))

-----------------------------------------------------------------------------
(* The file names the normalizer is applied to: a base name, up to         *)
(* MaxPieces annotations (architecture tokens, version numbers, notes,     *)
(* each alone or after an underscore, and bare separators) and an          *)
(* extension.                                                              *)

MaxPieces == 2

DiskGeniusPro == <<"D","i","s","k","G","e","n","i","u","s","P","r","o">>
DownKyi == <<"D","o","w","n","K","y","i">>

BaseNames == { DiskGeniusPro, DownKyi, <<"T","o","o","l",".","K","i","t">> }

Annotations == { <<"x","6","4">>,
                 <<"X","8","6">>,
                 <<"w","i","n","3","2">>,
                 <<"W","i","n","6","4">>,
                 <<"x","x","6","4","6","4">>,
                 <<"v","1",".","2",".","3">>,
                 <<"7">>,
                 <<"E","x","t","r","a">> }

Pieces == Annotations \cup { <<"_">> \o a : a \in Annotations } \cup { <<".">>, <<"-">> }

Extensions == { <<".","7","z">>, <<".","E","X","E">>, <<>> }

PieceSeqs == UNION { [1..n -> Pieces] : n \in 0..MaxPieces }

FileNames == { b \o Concat(ps) \o e : b \in BaseNames, ps \in PieceSeqs, e \in Extensions }

NormIdle == /\ filename = <<>>
            /\ name = <<>>
            /\ npc = "idle"

-----------------------------------------------------------------------------
(* query_tool_function                                                     *)

\* What an endpoint does with a request: requests.get raises (timeout,
\* connection error), or a response arrives with a status code and a body.
\* The body is no JSON ("malformed"), JSON without the field or with an empty
\* one ("absent": the field missing, ("field", "") an empty string), JSON whose
\* field is no string ("nonstring") or JSON with the field set to a text.
Statuses == {200, 404}

Abstracts == { <<"D","i","s","k"," ","t","o","o","l","."," ","F","r","e","e">>,
               <<"D","o","w","n","l","o","a","d","e","r">>,
               <<".","N","E","T"," ","a","p","p">> }

Raises == [exc |-> TRUE, status |-> 0, body |-> "none", text |-> <<>>]

Responses ==
    {Raises}
    \cup [exc : {FALSE}, status : Statuses, body : {"malformed", "absent", "nonstring"},
          text : {<<>>}]
    \cup [exc : {FALSE}, status : Statuses, body : {"field"}, text : Abstracts \cup {<<>>}]

\* text.split(".")[0]: the text before the first period
BeforeFirstPeriod(t) ==
    IF \E i \in 1..Len(t) : t[i] = "."
    THEN Before(t, CHOOSE i \in 1..Len(t) : t[i] = "." /\ \A j \in 1..(i-1) : t[j] # ".")
    ELSE t

Return(t) == [kind |-> "return", text |-> t]
Pass      == [kind |-> "pass", text |-> <<>>]
Raise     == [kind |-> "raise", text |-> <<>>]

\* data = r.json(); if data.get(field): return data[field].split(".")[0]
JsonField(resp) ==
    IF resp.body = "malformed" THEN Raise                \* r.json() raises
    ELSE IF resp.body = "absent" THEN Pass               \* data.get(...) is None
    ELSE IF resp.body = "nonstring" THEN Raise           \* no .split on it
    ELSE IF resp.text = <<>> THEN Pass                   \* "" is falsy
    ELSE Return(BeforeFirstPeriod(resp.text))

\* WikiTry with the status test turned round
WikiTryStatusInverted(resp) ==
    IF resp.exc THEN Raise
    ELSE IF resp.status # 200 THEN JsonField(resp)
    ELSE Pass

\* the body of the first try block
WikiTry(resp) ==
    IF resp.exc THEN Raise
    ELSE IF resp.status = 200 THEN JsonField(resp)
    ELSE Pass

\* the body of the second try block: the status code is not looked at
DdgTry(resp) ==
    IF resp.exc THEN Raise
    ELSE JsonField(resp)

\* except Exception: pass
Except(outcome) == IF outcome.kind = "raise" THEN Pass ELSE outcome

Fallback == <<"W","i","n","d","o","w","s"," ","u","t","i","l","i","t","y"," ","t","o","o","l">>

\* the whole function, as main calls it
query_tool_function(wiki, ddg) ==
    IF Except(WikiTry(wiki)).kind = "return" THEN Except(WikiTry(wiki)).text
    ELSE IF Except(DdgTry(ddg)).kind = "return" THEN Except(DdgTry(ddg)).text
    ELSE Fallback

QueryIdle == /\ tool_name = <<>>
             /\ wiki_resp = Raises
             /\ ddg_resp = Raises
             /\ requests = <<>>
             /\ qpc = "idle"
             /\ result = <<>>

\* requests.get(wiki_api, headers=HEADERS, timeout=5)
SendWiki ==
    /\ qpc = "call"
    /\ requests' = Append(requests, "wiki")
    /\ qpc' = "wiki"
    /\ UNCHANGED <<tool_name, wiki_resp, ddg_resp, result>>
    /\ UNCHANGED <<normVars, updateVars, mainVars>>

\* the first try block ends: it returns, or control reaches the second
\* requests.get
WikiAnswer ==
    /\ qpc = "wiki"
    /\ IF Except(WikiTry(wiki_resp)).kind = "return"
       THEN /\ result' = Except(WikiTry(wiki_resp)).text
            /\ qpc' = "returned"
            /\ UNCHANGED requests
       ELSE /\ requests' = Append(requests, "ddg")
            /\ qpc' = "ddg"
            /\ UNCHANGED result
    /\ UNCHANGED <<tool_name, wiki_resp, ddg_resp>>
    /\ UNCHANGED <<normVars, updateVars, mainVars>>

\* the second try block ends: it returns, or the fallback is returned
DdgAnswer ==
    /\ qpc = "ddg"
    /\ result' = IF Except(DdgTry(ddg_resp)).kind = "return"
                 THEN Except(DdgTry(ddg_resp)).text
                 ELSE Fallback
    /\ qpc' = "returned"
    /\ UNCHANGED <<tool_name, wiki_resp, ddg_resp, requests>>
    /\ UNCHANGED <<normVars, updateVars, mainVars>>

-----------------------------------------------------------------------------
(* build_markdown_table and update_markdown_file                           *)

HeaderLine == <<"|"," ","N","a","m","e"," ","|"," ","F","u","n","c","t","i","o","n"," ","|">>
SeparatorLine == <<"|"," ","-","-","-","-"," ","|"," ","-","-","-","-","-","-","-","-"," ","|">>

\* f"| {name} | {function} |"
Row(tool) == <<"|", " ">> \o tool[1] \o <<" ", "|", " ">> \o tool[2] \o <<" ", "|">>

build_markdown_table(tools) ==
    Join(<<HeaderLine, SeparatorLine>> \o [i \in 1..Len(tools) |-> Row(tools[i])], <<"\n">>)

\* "| Name | Function |" in original_content
Contains(s, pat) == \E i \in 1..Len(s) : MatchAt(s, i, pat)

\* the least element of a non-empty set of positions
Min(S) == CHOOSE p \in S : \A q \in S : p <= q

\* the first position at or after i where $ matches under re.MULTILINE: before
\* a newline or at the end of the text
LineEnd(s, i) == Min({ p \in i..(Len(s) + 1) : p > Len(s) \/ s[p] = "\n" })

\* the positions at or after i where the header stands
HeadersFrom(s, i) == { p \in i..Len(s) : MatchAt(s, p, HeaderLine) }

\* re.sub(r"\| Name \| Function \|[\s\S]*?$", table_content, original_content,
\*        flags=re.MULTILINE): every match is replaced, the scan going on after
\* each; the lazy [\s\S]*? stops at the first place $ matches, the end of the
\* line the header stands on
RECURSIVE ReSubFrom(_, _, _)
ReSubFrom(s, i, repl) ==
    IF HeadersFrom(s, i) = {} THEN From(s, i)
    ELSE LET p == Min(HeadersFrom(s, i))
         IN  SubSeq(s, i, p - 1) \o repl
             \o ReSubFrom(s, LineEnd(s, p + Len(HeaderLine)), repl)

ReSub(s, repl) == ReSubFrom(s, 1, repl)

\* The target document: whether md_path.exists(), and its text.
Absent == [exists |-> FALSE, text |-> <<>>]
File(t) == [exists |-> TRUE, text |-> t]

\* update_markdown_file rewriting a document that has a table from scratch
update_markdown_file_TableOnly(doc, table) ==
    IF doc.exists /\ ~Contains(doc.text, HeaderLine)
    THEN File(doc.text \o <<"\n", "\n">> \o table)
    ELSE File(table)

\* the document after update_markdown_file(md_path, table)
update_markdown_file(doc, table) ==
    IF doc.exists
    THEN IF Contains(doc.text, HeaderLine)
         THEN File(ReSub(doc.text, table))
         ELSE File(doc.text \o <<"\n", "\n">> \o table)
    ELSE File(table)

\* Tool entries as main collects them: (tool_name, function).
Appone  == << <<"A","p","p","o","n","e">>, Fallback >>
Appzero == << <<"A","p","p","z","e","r","o">>, <<"D","o","w","n","l","o","a","d","e","r">> >>
NameFunction == << <<"N","a","m","e">>, <<"F","u","n","c","t","i","o","n">> >>

ToolLists == { <<>>, <<Appone>>, <<Appone, Appzero>>, <<NameFunction>> }

Notes == <<"#"," ","T","o","o","l","s","\n">>

\* The documents a first run may find: none, an empty one, notes without a
\* table, notes followed by the table block of an earlier run, a bare table,
\* and a text that quotes the header inside a line.
InitialFiles ==
    { Absent,
      File(<<>>),
      File(Notes),
      File(Notes \o <<"\n">> \o build_markdown_table(<<Appzero>>)),
      File(build_markdown_table(<<>>)),
      File(<<"S","e","e"," ">> \o HeaderLine \o <<" ","h","e","r","e","\n","E","n","d">>) }

MaxCalls == 3

UpdateIdle == /\ md_file = Absent
              /\ old_file = Absent
              /\ first_file = Absent
              /\ table_content = <<>>
              /\ old_table = <<>>
              /\ ncalls = 0

\* one call of update_markdown_file with a table build_markdown_table rendered
UpdateMarkdownFile ==
    /\ ncalls < MaxCalls
    /\ \E tools \in ToolLists :
          LET table == build_markdown_table(tools)
          IN  /\ table_content' = table
              /\ md_file' = update_markdown_file(md_file, table)
    /\ old_file' = md_file
    /\ old_table' = table_content
    /\ ncalls' = ncalls + 1
    /\ UNCHANGED first_file
    /\ UNCHANGED <<normVars, queryVars, mainVars>>

-----------------------------------------------------------------------------
(* main                                                                    *)

SUPPORTED_EXTENSIONS == { <<".","7","z">>, <<".","z","i","p">>, <<".","r","a","r">>, <<".","e","x","e">> }

\* An entry of tools_dir: its name and whether item.is_file().
Entry(n, f) == [name |-> n, is_file |-> f]

AppOneExe  == Entry(<<"A","p","p","O","n","e","_","x","6","4",".","e","x","e">>, TRUE)
AppZeroZip == Entry(<<"a","p","p","z","e","r","o",".","z","i","p">>, TRUE)

Candidates ==
    { AppOneExe,
      AppZeroZip,
      Entry(<<"a","p","p","z","e","r","o","-","v","2",".","7","z">>, TRUE),
      Entry(<<"T","o","o","l",".","R","A","R">>, TRUE),
      Entry(<<"n","o","t","e","s",".","t","x","t">>, TRUE),
      Entry(<<"o","l","d",".","z","i","p">>, FALSE),
      Entry(<<".","z","i","p">>, TRUE) }

MaxEntries == 3

Directories == { d \in SUBSET Candidates : Cardinality(d) <= MaxEntries }

\* What the endpoints answer during a run of main.
MainResponses == { Raises,
                   [exc |-> FALSE, status |-> 200, body |-> "field",
                    text |-> <<"D","i","s","k"," ","t","o","o","l","."," ","F","r","e","e">>] }

\* item.is_file() and item.suffix.lower() in SUPPORTED_EXTENSIONS
IsTool(item) == item.is_file /\ Lower(Suffix(item.name)) \in SUPPORTED_EXTENSIONS

\* the position after the last pair whose key is not greater than k
RECURSIVE InsertPos(_, _, _)
InsertPos(sorted, k, i) ==
    IF i > Len(sorted) \/ StrLess(k, Lower(sorted[i][1])) THEN i
    ELSE InsertPos(sorted, k, i + 1)

RECURSIVE InsertAll(_, _)
InsertAll(sorted, rest) ==
    IF rest = <<>> THEN sorted
    ELSE LET p == InsertPos(sorted, Lower(rest[1][1]), 1)
         IN  InsertAll(Before(sorted, p) \o <<rest[1]>> \o From(sorted, p), Tail(rest))

\* SortTools left out: the pairs stay in the order iterdir() yielded them
SortToolsKeepsOrder(tools) == tools

\* collected_tools.sort(key=lambda x: x[0].lower()): a stable sort
SortTools(tools) == InsertAll(<<>>, tools)

MainIdle == /\ dir_entries = {}
            /\ pending = {}
            /\ collected_tools = <<>>
            /\ lookups = <<>>
            /\ markdown_table = <<>>
            /\ mpc = "idle"

\* one round of the for loop: iterdir() yields an entry, in no fixed order
Iterate ==
    /\ mpc = "iter"
    /\ \E item \in pending :
          /\ pending' = pending \ {item}
          /\ IF IsTool(item)
             THEN \E wiki \in MainResponses, ddg \in MainResponses :
                     /\ collected_tools' =
                            Append(collected_tools,
                                   << normalize_tool_name(item.name),
                                      query_tool_function(wiki, ddg) >>)
                     /\ lookups' = Append(lookups, <<wiki, ddg>>)
             ELSE UNCHANGED <<collected_tools, lookups>>
    /\ UNCHANGED <<dir_entries, markdown_table, mpc>>
    /\ UNCHANGED <<normVars, queryVars, updateVars>>

\* the loop is over: sort, render the table, update the document
Finish ==
    /\ mpc = "iter"
    /\ pending = {}
    /\ LET sorted == SortTools(collected_tools)
           table == build_markdown_table(sorted)
       IN  /\ collected_tools' = sorted
           /\ markdown_table' = table
           /\ md_file' = update_markdown_file(md_file, table)
           /\ table_content' = table
    /\ old_file' = md_file
    /\ old_table' = table_content
    /\ ncalls' = ncalls + 1
    /\ mpc' = "done"
    /\ UNCHANGED <<dir_entries, pending, lookups, first_file>>
    /\ UNCHANGED <<normVars, queryVars>>

-----------------------------------------------------------------------------
(* Specifications                                                          *)

\* normalize_tool_name applied to each of FileNames
InitNormalize ==
    /\ filename \in FileNames
    /\ name = <<>>
    /\ npc = "call"
    /\ QueryIdle /\ UpdateIdle /\ MainIdle

Normalize ==
    /\ npc = "call"
    /\ name' = normalize_tool_name(filename)
    /\ npc' = "done"
    /\ UNCHANGED <<filename, queryVars, updateVars, mainVars>>

NextNormalize == Normalize

SpecNormalize == InitNormalize /\ [][NextNormalize]_vars

\* query_tool_function against every pair of answers of the two endpoints
InitQuery ==
    /\ tool_name \in { DiskGeniusPro, DownKyi }
    /\ wiki_resp \in Responses
    /\ ddg_resp \in Responses
    /\ requests = <<>>
    /\ qpc = "call"
    /\ result = <<>>
    /\ NormIdle /\ UpdateIdle /\ MainIdle

NextQuery == SendWiki \/ WikiAnswer \/ DdgAnswer

SpecQuery == InitQuery /\ [][NextQuery]_vars

\* up to MaxCalls calls of update_markdown_file on one document
InitUpdate ==
    /\ md_file \in InitialFiles
    /\ first_file = md_file
    /\ old_file = md_file
    /\ table_content = <<>>
    /\ old_table = <<>>
    /\ ncalls = 0
    /\ NormIdle /\ QueryIdle /\ MainIdle

NextUpdate == UpdateMarkdownFile

SpecUpdate == InitUpdate /\ [][NextUpdate]_vars

\* one run of main over a directory
InitMain ==
    /\ dir_entries \in Directories
    /\ pending = dir_entries
    /\ collected_tools = <<>>
    /\ lookups = <<>>
    /\ markdown_table = <<>>
    /\ mpc = "iter"
    /\ md_file \in { Absent, File(Notes) }
    /\ first_file = md_file
    /\ old_file = md_file
    /\ table_content = <<>>
    /\ old_table = <<>>
    /\ ncalls = 0
    /\ NormIdle /\ QueryIdle

NextMain == Iterate \/ Finish

SpecMain == InitMain /\ [][NextMain]_vars

-----------------------------------------------------------------------------
(* Properties of update_markdown_file, checked under SpecUpdate            *)

HasHeader(s) == \E p \in 1..Len(s) : MatchAt(s, p, HeaderLine)

\* the position of the first occurrence of the header in a text that has one
FirstHeader(s) == Min({ p \in 1..Len(s) : MatchAt(s, p, HeaderLine) })

\* the number of occurrences of the header in a text
CountHeaders(s) == Cardinality({ p \in 1..Len(s) : MatchAt(s, p, HeaderLine) })

\* C1: a call on an existing document that contains the header writes the
\* text that preceded the header followed by the new table and nothing else.
C1_ReplacesToEndOfFile ==
    (ncalls >= 1 /\ old_file.exists /\ HasHeader(old_file.text))
    => md_file = File(Before(old_file.text, FirstHeader(old_file.text)) \o table_content)

\* C2: calling update_markdown_file twice in a row with the same table leaves
\* the document as the first of the two calls left it.
C2_Idempotent ==
    (ncalls >= 2 /\ table_content = old_table) => md_file = old_file

\* C3: starting from no document or one with at most one header, the
\* document holds exactly one header after every call.
C3_ExactlyOneHeader ==
    (ncalls >= 1 /\ CountHeaders(first_file.text) <= 1)
    => CountHeaders(md_file.text) = 1

\* C4: the text before the first header of an existing document is kept as
\* the beginning of the new text; a document without the header is kept
\* whole and followed by two newlines and the table.
C4_PrefixKept ==
    (ncalls >= 1 /\ old_file.exists)
    => /\ md_file.exists
       /\ IF HasHeader(old_file.text)
          THEN /\ Len(md_file.text) >= FirstHeader(old_file.text) - 1
               /\ Before(md_file.text, FirstHeader(old_file.text))
                    = Before(old_file.text, FirstHeader(old_file.text))
          ELSE md_file.text = old_file.text \o <<"\n", "\n">> \o table_content

\* a call has rewritten a document that had text above its table
C4_Witness ==
    /\ ncalls >= 1
    /\ old_file.exists
    /\ HasHeader(old_file.text)
    /\ FirstHeader(old_file.text) > 1
    /\ md_file # old_file

-----------------------------------------------------------------------------
(* Properties of query_tool_function, checked under SpecQuery              *)

\* the first lookup answers with status 200 and a non-empty extract
WikiHasExtract ==
    /\ ~wiki_resp.exc
    /\ wiki_resp.status = 200
    /\ wiki_resp.body = "field"
    /\ wiki_resp.text # <<>>

\* r is the part of t before its first period
IsPartBeforeFirstPeriod(r, t) ==
    /\ Len(r) <= Len(t)
    /\ r = Before(t, Len(r) + 1)
    /\ \A i \in 1..Len(r) : r[i] # "."
    /\ Len(r) < Len(t) => t[Len(r) + 1] = "."

\* C5: when the first lookup answers with status 200 and a non-empty
\* extract, the result is the extract up to its first period whatever the
\* second source would answer, and the second lookup is requested only after
\* the first has produced no data.
C5_WikiPriority ==
    /\ (qpc = "returned" /\ WikiHasExtract)
         => /\ IsPartBeforeFirstPeriod(result, wiki_resp.text)
            /\ requests = <<"wiki">>
    /\ (\E i \in 1..Len(requests) : requests[i] = "ddg")
         => /\ requests = <<"wiki", "ddg">>
            /\ ~WikiHasExtract

\* the first lookup had an extract while the second source would have
\* answered with another text
C5_Witness ==
    /\ qpc = "returned"
    /\ WikiHasExtract
    /\ ~ddg_resp.exc /\ ddg_resp.status = 200 /\ ddg_resp.body = "field"
    /\ ddg_resp.text # <<>>
    /\ ddg_resp.text # wiki_resp.text
    /\ result # wiki_resp.text

\* a lookup fails: an exception, a status other than 200, a missing or empty
\* field, a malformed body
LookupFails(resp) ==
    \/ resp.exc
    \/ resp.status # 200
    \/ resp.body \in {"malformed", "absent", "nonstring"}
    \/ resp.body = "field" /\ resp.text = <<>>

\* C6: whenever both lookups fail, the function returns the fallback string.
C6_FallbackWhenBothFail ==
    (qpc = "returned" /\ LookupFails(wiki_resp) /\ LookupFails(ddg_resp))
    => result = Fallback

-----------------------------------------------------------------------------
(* Properties of main, checked under SpecMain                              *)

\* the positions of the newlines of a text
Newlines(s) == { p \in 1..Len(s) : s[p] = "\n" }

\* text.split("\n")
RECURSIVE LinesFrom(_, _)
LinesFrom(s, i) ==
    IF { p \in Newlines(s) : p >= i } = {} THEN << From(s, i) >>
    ELSE LET p == Min({ q \in Newlines(s) : q >= i })
         IN  << SubSeq(s, i, p - 1) >> \o LinesFrom(s, p + 1)

LinesOf(s) == LinesFrom(s, 1)

\* the lines of the rendered table
TableLines == LinesOf(markdown_table)

\* the data rows of the rendered table: its lines after the header row and
\* the separator row
DataRows == From(TableLines, 3)


\* a regular file whose name ends, after a non-empty base name, in one of the
\* four extensions, letter case ignored
HasToolExtension(entry) ==
    /\ entry.is_file
    /\ \E ext \in SUPPORTED_EXTENSIONS :
          /\ Len(entry.name) > Len(ext)
          /\ Lower(From(entry.name, Len(entry.name) - Len(ext) + 1)) = ext

\* the entries of the directory that are tools
ToolEntries == { e \in dir_entries : HasToolExtension(e) }

\* C7: the rendered table has exactly one data row per regular file with a
\* supported extension and no other row, and the rows stand in ascending
\* order of the lower-cased normalized name.
C7_OneRowPerToolSorted ==
    mpc = "done" =>
      LET lines == TableLines
          rows  == From(lines, 3)
          names == [e \in ToolEntries |-> normalize_tool_name(e.name)]
          keys  == [i \in 1..Len(collected_tools) |-> Lower(collected_tools[i][1])]
      IN  /\ Len(lines) >= 2
          /\ lines[1] = HeaderLine
          /\ lines[2] = SeparatorLine
          /\ Len(rows) = Cardinality(ToolEntries)
          /\ Len(rows) = Len(collected_tools)
          /\ \A i \in 1..Len(rows) : rows[i] = Row(collected_tools[i])
          /\ \A e \in ToolEntries :
                Cardinality({ i \in 1..Len(collected_tools) :
                                collected_tools[i][1] = names[e] })
                  = Cardinality({ f \in ToolEntries : names[f] = names[e] })
          /\ \A i \in 1..Len(keys) : \A j \in (i+1)..Len(keys) :
                ~StrLess(keys[j], keys[i])

\* a run over a directory of tools with different names and an entry that
\* is no tool
C7_Witness ==
    /\ mpc = "done"
    /\ Len(DataRows) >= 2
    /\ collected_tools[1][1] # collected_tools[2][1]
    /\ Cardinality(dir_entries) > Len(DataRows)

\* the directory holds AppOne_x64.exe and appzero.zip and every lookup fails
TwoAppsNoNetwork ==
    /\ mpc = "done"
    /\ dir_entries = { AppOneExe, AppZeroZip }
    /\ \A i \in 1..Len(lookups) : lookups[i][1].exc /\ lookups[i][2].exc

ApponeRow  == <<"|"," ","A","p","p","o","n","e"," ","|"," ","W","i","n","d","o","w","s"," ","u","t","i","l","i","t","y"," ","t","o","o","l"," ","|">>
AppzeroRow == <<"|"," ","A","p","p","z","e","r","o"," ","|"," ","W","i","n","d","o","w","s"," ","u","t","i","l","i","t","y"," ","t","o","o","l"," ","|">>

\* C8 as stated: two data rows with the fallback description, the row named
\* Appzero before the row derived from AppOne_x64.exe.
C8_AppzeroFirst ==
    TwoAppsNoNetwork =>
      /\ Len(DataRows) = 2
      /\ DataRows[1] = AppzeroRow
      /\ DataRows[2] = Row(<< normalize_tool_name(AppOneExe.name), Fallback >>)

\* C8 as amended: two data rows with the fallback description, the row named
\* Appone (derived from AppOne_x64.exe) before the row named Appzero.
C8_ApponeFirst ==
    TwoAppsNoNetwork => DataRows = << ApponeRow, AppzeroRow >>

C8_Witness ==
    /\ TwoAppsNoNetwork
    /\ Len(DataRows) = 2
    /\ md_file.exists
    /\ HasHeader(md_file.text)

-----------------------------------------------------------------------------
(* Properties of normalize_tool_name, checked under SpecNormalize          *)

\* an architecture token stands in s at position i, letter case ignored
ArchTokenAt(s, i) ==
    \E t \in { <<"x","6","4">>, <<"x","8","6">>, <<"w","i","n","3","2">>, <<"w","i","n","6","4">> } :
        MatchAtI(s, i, t)

ContainsArchToken(s) == \E i \in 1..Len(s) : ArchTokenAt(s, i)

\* a digit of s that is part of no architecture token
ContainsVersionNumber(s) ==
    \E i \in 1..Len(s) :
        /\ IsDigit(s[i])
        /\ ~\E j \in 1..i : ArchTokenAt(s, j) /\ i < j + 5
                            /\ (i < j + 3 \/ LowerChar(s[j]) = "w")

ContainsDigit(s) == \E i \in 1..Len(s) : IsDigit(s[i])

\* a letter is upper case exactly when no letter stands before it
IsTitleCased(s) ==
    \A i \in 1..Len(s) :
        IsAlpha(s[i]) => (IsUpper(s[i]) <=> (i = 1 \/ ~IsAlpha(s[i - 1])))

\* C9: for a file name with an architecture token and a version number, the
\* normalized name holds no architecture token and no digit and is
\* title-cased.
C9_NoArchNoDigitTitleCased ==
    (npc = "done" /\ ContainsArchToken(filename) /\ ContainsVersionNumber(filename))
    => /\ ~ContainsArchToken(name)
       /\ ~ContainsDigit(name)
       /\ IsTitleCased(name)

\* DiskGeniusPro_x64_v1.2.3.7z has been normalized to Diskgeniuspro
C9_Witness ==
    /\ npc = "done"
    /\ filename = DiskGeniusPro \o <<"_","x","6","4","_","v","1",".","2",".","3",".","7","z">>
    /\ name = <<"D","i","s","k","g","e","n","i","u","s","p","r","o">>

\* C10: the examples of the docstring: DiskGeniusPro_x64.7z gives
\* "DiskGenius Pro" and DownKyi_<annotation>.7z gives "DownKyi".
C10_DocstringExamples ==
    /\ (npc = "done" /\ filename = DiskGeniusPro \o <<"_","x","6","4",".","7","z">>)
         => name = <<"D","i","s","k","G","e","n","i","u","s"," ","P","r","o">>
    /\ (npc = "done" /\ filename = DownKyi \o <<"_","E","x","t","r","a",".","7","z">>)
         => name = DownKyi

=============================================================================
